---- MODULE Spec2Model ----
(***************************************************************************)
(* A model of pig (src/main.go): one-table reconciliation between a        *)
(* read-only source database and a mutable target database.                *)
(*                                                                         *)
(* The table has text primary-key columns (one or two of them), one        *)
(* ordinary column "val" and the excluded column "search_vector".  A text  *)
(* value is a sequence of one-character strings, so that the "::" key      *)
(* encoding of makeKey/splitKey is computed as the code computes it.       *)
(* A table is a function from primary-key tuples to rows.                  *)
(***************************************************************************)
EXTENDS Naturals, Sequences, FiniteSets, TLC

\* ------------------------------------------------------------------ bounds
MaxRows == 3        \* rows of the source and the target table together, initially
MaxWrites == 1      \* writes of other sessions to the source during one run
MaxKeyLen == 2      \* characters of a key value given to makeKey on its own
MaxIdLen == 3       \* characters of a column name given to quoteIdentifier

\* ------------------------------------------------------- the table's shape
\* The primary-key column lists the catalog may declare; the empty list is
\* a table without a primary key.
PkColsChoices == { << >>, <<"id">>, <<"a", "b">> }

\* Values a primary-key column holds, as text.
KeyVals1 == { <<"1">>, <<"2">>, <<"3">> }
KeyVals2 == { <<"1">>, <<"2">> }

\* Values of the ordinary column and of the excluded column search_vector.
Vals == { "a", "b" }
SVals == { "null", "x" }

\* An INSERT that names no value for search_vector stores the column default.
DefaultSV == "null"

\* The --where predicates tried: none, and one over the ordinary column.
Filters == { "", "val = 'a'" }

Rows == [val : Vals, sv : SVals]

\* Row identities: the primary-key tuples; a table without a primary key
\* is given a single row slot, the empty tuple.
KeyTuples(cols) ==
    IF Len(cols) = 0 THEN { << >> }
    ELSE IF Len(cols) = 1 THEN { <<v>> : v \in KeyVals1 }
    ELSE { <<v, w>> : v \in KeyVals2, w \in KeyVals2 }

\* The tables over the given key columns that hold at most n rows.
Tables(cols, n) ==
    UNION { [D -> Rows] :
            D \in { D \in SUBSET KeyTuples(cols) : Cardinality(D) <= n } }

Range(s) == { s[i] : i \in 1..Len(s) }

\* All orderings of a finite set, as sequences without repetition.
Orderings(S) ==
    { s \in [1..Cardinality(S) -> S] : \A i, j \in 1..Cardinality(S) : s[i] = s[j] => i = j }

\* ------------------------------------------------------------ key encoding
Sep == << ":", ":" >>

\* fmt.Sprintf("%v", v) of a text value is the text.
Sprint(v) == v

RECURSIVE Join(_, _)
Join(parts, sep) ==
    IF Len(parts) = 0 THEN << >>
    ELSE IF Len(parts) = 1 THEN parts[1]
    ELSE parts[1] \o sep \o Join(Tail(parts), sep)

makeKey(values) == Join([i \in 1..Len(values) |-> Sprint(values[i])], Sep)

\* strings.Index: position of the first occurrence of sep in s, 0 if none.
Index(s, sep) ==
    LET hits == { i \in 1..Len(s) :
                    /\ i + Len(sep) - 1 <= Len(s)
                    /\ SubSeq(s, i, i + Len(sep) - 1) = sep }
    IN  IF hits = {} THEN 0 ELSE CHOOSE i \in hits : \A j \in hits : i <= j

RECURSIVE Split(_, _)
Split(s, sep) ==
    LET i == Index(s, sep)
    IN  IF i = 0 THEN << s >>
        ELSE << SubSeq(s, 1, i - 1) >> \o Split(SubSeq(s, i + Len(sep), Len(s)), sep)

splitKey(key) == Split(key, Sep)

\* ------------------------------------------------------------ identifiers
Quote == "\""

\* strings.Trim(s, `"`): the leading and the trailing double quotes go.
RECURSIVE TrimLeft(_)
TrimLeft(s) ==
    IF Len(s) > 0 /\ s[1] = Quote THEN TrimLeft(Tail(s)) ELSE s

RECURSIVE TrimRight(_)
TrimRight(s) ==
    IF Len(s) > 0 /\ s[Len(s)] = Quote THEN TrimRight(SubSeq(s, 1, Len(s) - 1))
    ELSE s

Trim(s) == TrimRight(TrimLeft(s))

\* strings.ReplaceAll(s, `"`, `""`)
RECURSIVE DoubleQuotes(_)
DoubleQuotes(s) ==
    IF Len(s) = 0 THEN << >>
    ELSE (IF s[1] = Quote THEN << Quote, Quote >> ELSE << s[1] >>)
            \o DoubleQuotes(Tail(s))

\* Lines 437-440.
quoteIdentifier(identifier) ==
    << Quote >> \o DoubleQuotes(Trim(identifier)) \o << Quote >>

\* The column a quoted identifier names when the server reads it: the text
\* between the outer quotes with each doubled quote read as one; a text
\* that is not a quoted identifier names no column.
NoColumn == << "?" >>

RECURSIVE Undouble(_)
Undouble(s) ==
    IF Len(s) = 0 THEN << >>
    ELSE IF s[1] # Quote
         THEN LET r == Undouble(Tail(s))
              IN  IF r = NoColumn THEN NoColumn ELSE << s[1] >> \o r
    ELSE IF Len(s) >= 2 /\ s[2] = Quote
         THEN LET r == Undouble(SubSeq(s, 3, Len(s)))
              IN  IF r = NoColumn THEN NoColumn ELSE << Quote >> \o r
    ELSE NoColumn

ColumnNamed(q) ==
    IF Len(q) >= 3 /\ q[1] = Quote /\ q[Len(q)] = Quote
    THEN Undouble(SubSeq(q, 2, Len(q) - 1))
    ELSE NoColumn

\* ------------------------------------------------------------- SQL pieces
\* The --where fragment evaluated on one row.
WhereHolds(w, row) == IF w = "" THEN TRUE ELSE row.val = "a"

\* md5(row_to_json(t)::text): a digest of the complete row, key columns,
\* ordinary column and excluded column alike; distinct rows get distinct
\* digests.
RowHash(k, row) == << k, row.val, row.sv >>

\* The map built by scanning (key columns, row_hash) rows: one entry per
\* encoded key; when two rows encode to the same key, the one scanned last
\* stays, and the scan order is the database's.
ScanFingerprints(tbl, D) ==
    LET ks == { makeKey(k) : k \in D }
        hs == { RowHash(k, tbl[k]) : k \in D }
    IN  { m \in [ks -> hs] :
            \A s \in ks : \E k \in D : makeKey(k) = s /\ m[s] = RowHash(k, tbl[k]) }

\* Rows the source query returns: the whole table restricted by --where.
SourceRowKeys(tbl, w) == { k \in DOMAIN tbl : WhereHolds(w, tbl[k]) }

\* The one array bound to $1 of the target query: the first element of
\* every split source key.
TargetArgs(srcData) == { splitKey(key)[1] : key \in DOMAIN srcData }

\* Rows the target query returns: every key column = ANY($1).
TargetRowKeys(tbl, cols, args) ==
    { k \in DOMAIN tbl : \A i \in 1..Len(cols) : k[i] \in args }

\* ------------------------------------------------------------------- diff
\* Variant: the force flag is not consulted.
NeedsUpsertIgnoresForce(f, sourceHash, targetHash) == sourceHash # targetHash

\* Variant: every key present on both sides is upserted.
NeedsUpsertAlways(f, sourceHash, targetHash) == TRUE

\* Line 247: force || sourceHash != targetHash
NeedsUpsert(f, sourceHash, targetHash) == f \/ sourceHash # targetHash

InsertKeys(srcData, tgtData) ==
    { key \in DOMAIN srcData : key \notin DOMAIN tgtData }

\* Variant: "if" in place of "else if" at line 247, so that a key missing
\* from the target is appended to both slices.
UpsertKeysNoElse(srcData, tgtData, f) ==
    { key \in DOMAIN srcData :
        \/ key \notin DOMAIN tgtData
        \/ NeedsUpsert(f, srcData[key], tgtData[key]) }

UpsertKeys(srcData, tgtData, f) ==
    { key \in DOMAIN srcData :
        /\ key \in DOMAIN tgtData
        /\ NeedsUpsert(f, srcData[key], tgtData[key]) }

DeleteKeys(srcData, tgtData) ==
    { key \in DOMAIN tgtData : key \notin DOMAIN srcData }

\* ------------------------------------------------------------- statements
\* SELECT <non-excluded columns> FROM source WHERE pk1 = $1 AND ...: the
\* statement takes Len(cols) arguments; the result is the set of rows read.
ArgsFit(cols, pkValues) == Len(pkValues) = Len(cols)

\* Variant: ON CONFLICT (pk) DO NOTHING, an existing row stays as it is.
UpsertIntoDoNothing(tbl, k, val) ==
    IF k \in DOMAIN tbl THEN tbl
    ELSE [x \in DOMAIN tbl \cup {k} |->
            IF x = k THEN [val |-> val, sv |-> DefaultSV] ELSE tbl[x]]

\* Variant: the upsert also writes search_vector, with the column default.
UpsertIntoResetsSV(tbl, k, val) ==
    [x \in DOMAIN tbl \cup {k} |->
        IF x = k THEN [val |-> val, sv |-> DefaultSV] ELSE tbl[x]]

\* INSERT ... ON CONFLICT (pk) DO UPDATE SET col = EXCLUDED.col over the
\* non-excluded columns: search_vector keeps its value in an existing row
\* and takes the default in a new one.
UpsertInto(tbl, k, val) ==
    LET row == [val |-> val,
                sv  |-> IF k \in DOMAIN tbl THEN tbl[k].sv ELSE DefaultSV]
    IN  [x \in DOMAIN tbl \cup {k} |-> IF x = k THEN row ELSE tbl[x]]

\* DELETE FROM target WHERE pk1 = $1 AND ...
DeleteFrom(tbl, k) == [x \in DOMAIN tbl \ {k} |-> tbl[x]]

\* One statement sent to a connection, with its outcome.
Stmt(conn, op, key, ok) == [conn |-> conn, op |-> op, key |-> key, ok |-> ok]

NoKey == << >>

\* Variant: the length of pkCols is not checked.
HasNoPrimaryKeyUnchecked(cols) == FALSE

\* Line 85: len(pkCols) == 0
HasNoPrimaryKey(cols) == Len(cols) = 0

\* ------------------------------------------------------------------ state
VARIABLES
    pkCols,        \* primary-key column list of the table
    where,         \* --where
    dryRun,        \* --dry-run
    force,         \* --force
    srcTable,      \* the source table
    tgtTable,      \* the target table, committed content
    txTable,       \* the target table as the open transaction sees it
    txState,       \* "none", "open", "committed", "rolledback"
    pc,            \* position in makeTableSame
    err,           \* the error makeTableSame returns, "" for nil
    sourceData,    \* encoded key -> row hash, source side
    targetData,    \* encoded key -> row hash, target side
    keysToInsert,
    keysToUpsert,
    keysToDelete,
    idx,           \* position in the upsert loop, then in the delete loop
    columns,       \* the values the materializing read has scanned
    tgtBefore,     \* the target table when this invocation started
    prevCommitted, \* the previous invocation committed its transaction
    stmts,         \* the statements this invocation has sent, in order
    badKeys,       \* encoded keys whose upsert the target rejects
    lateKeys,      \* encoded keys whose row breaks a DEFERRABLE constraint
    prevRun,       \* what the previous invocation did, when it is compared
    writes,        \* writes of other sessions to the source during this run
    keyTest,       \* inputs and results of the key encoding on its own
    quoteTest      \* a column list and its quotings, on their own

vars == << pkCols, where, dryRun, force, srcTable, tgtTable, txTable, txState,
           pc, err, sourceData, targetData, keysToInsert, keysToUpsert,
           keysToDelete, idx, columns, tgtBefore, prevCommitted, stmts,
           badKeys,
           lateKeys, prevRun, writes, keyTest, quoteTest >>

args == << pkCols, where, dryRun, force, srcTable >>
diff == << keysToInsert, keysToUpsert, keysToDelete >>
hist == << tgtBefore, prevCommitted >>
aux  == << badKeys, lateKeys, prevRun, writes, keyTest, quoteTest >>

NoRun == [valid |-> FALSE, dry |-> FALSE, ok |-> FALSE, stmts |-> {}]
NoKeyTest == [u |-> << >>, v |-> << >>, applied |-> FALSE,
              encU |-> << >>, encV |-> << >>, decV |-> << >>]
NoQuoteTest == [catalog |-> << >>, cols |-> << >>, phase |-> "none",
                requoted |-> << >>]

Empty == [x \in {} |-> "null"]

\* columns before a materializing read and after a return.
NoRowData == << >>

Init ==
    /\ pkCols \in PkColsChoices
    /\ where \in Filters
    /\ dryRun \in BOOLEAN
    /\ force \in BOOLEAN
    /\ srcTable \in Tables(pkCols, MaxRows)
    /\ tgtTable \in Tables(pkCols, MaxRows - Cardinality(DOMAIN srcTable))
    /\ txTable = tgtTable
    /\ txState = "none"
    /\ pc = "schema"
    /\ err = ""
    /\ sourceData = Empty
    /\ targetData = Empty
    /\ keysToInsert = << >>
    /\ keysToUpsert = << >>
    /\ keysToDelete = << >>
    /\ idx = 1
    /\ columns = NoRowData
    /\ tgtBefore = tgtTable
    /\ prevCommitted = FALSE
    /\ stmts = << >>
    /\ badKeys = {}
    /\ lateKeys = {}
    /\ prevRun = NoRun
    /\ writes = 0
    /\ keyTest = NoKeyTest
    /\ quoteTest = NoQuoteTest

\* return fmt.Errorf(...) before target.Begin: nothing to undo.
ReturnError(msg) ==
    /\ err' = msg
    /\ pc' = "done"

\* tx.Rollback: the work of the transaction is discarded.
RollbackTx ==
    /\ txState' = "rolledback"
    /\ txTable' = tgtTable
    /\ tgtTable' = tgtTable

\* tx.Commit succeeded: the work of the transaction becomes the table.
CommitTx ==
    /\ txState' = "committed"
    /\ tgtTable' = txTable
    /\ txTable' = txTable

\* tx.Commit failed: the server aborts the transaction and pgx marks it
\* closed, so the deferred tx.Rollback that follows finds nothing to do.
CommitFailed ==
    /\ txState' = "rolledback"
    /\ txTable' = tgtTable
    /\ tgtTable' = tgtTable

\* Variant: the deferred function commits (defer tx.Commit) where it
\* should roll back.
DeferredCommitInstead == CommitTx

\* Variant: the deferred function does not see the error (a shadowed err)
\* and leaves the transaction as it is.
DeferredRollbackSkipped == UNCHANGED << txState, txTable, tgtTable >>

\* The deferred function of lines 228-232, run on a return with err set
\* while the transaction is open.
DeferredRollback == RollbackTx

\* return fmt.Errorf(...) after target.Begin.
ReturnErrorInTx(msg) ==
    /\ err' = msg
    /\ pc' = "done"
    /\ DeferredRollback

\* The statements that end a transaction.
RollbackStmt == Stmt("target", "rollback", NoKey, TRUE)

\* Lines 79-111: the two catalog queries on the source and the check that
\* the table has a primary key.
Introspect ==
    /\ pc = "schema"
    /\ \/ /\ ReturnError("error getting primary key columns")
          /\ stmts' = stmts \o << Stmt("source", "pk", NoKey, FALSE) >>
       \/ /\ HasNoPrimaryKey(pkCols)
          /\ ReturnError("table has no primary key")
          /\ stmts' = stmts \o << Stmt("source", "pk", NoKey, TRUE) >>
       \/ /\ ~HasNoPrimaryKey(pkCols)
          /\ ReturnError("error getting column names")
          /\ stmts' = stmts \o << Stmt("source", "pk", NoKey, TRUE),
                                  Stmt("source", "columns", NoKey, FALSE) >>
       \/ /\ ~HasNoPrimaryKey(pkCols)
          /\ pc' = "fpSource"
          /\ stmts' = stmts \o << Stmt("source", "pk", NoKey, TRUE),
                                  Stmt("source", "columns", NoKey, TRUE) >>
          /\ UNCHANGED err
    /\ UNCHANGED << args, aux, tgtTable, txTable, txState, sourceData,
                    targetData, diff, idx, columns, hist >>

\* The three returns of lines 125-150: source.Query, sourceRows.Scan and
\* sourceRows.Err.
SourceReadErrors ==
    { "error querying source", "error scanning source row",
      "error reading source rows" }

\* The three returns of lines 193-218: target.Query, targetRows.Scan and
\* targetRows.Err.
TargetReadErrors ==
    { "error querying target", "error scanning target row",
      "error reading target rows" }

\* Lines 113-166: the source fingerprint query and its scan loop, then the
\* early return when the source returned no row.
FingerprintSource ==
    /\ pc = "fpSource"
    /\ \/ /\ \E m \in ScanFingerprints(srcTable, SourceRowKeys(srcTable, where)) :
                /\ sourceData' = m
                /\ pc' = IF DOMAIN m = {} THEN "done" ELSE "fpTarget"
          /\ stmts' = stmts \o << Stmt("source", "fingerprint", NoKey, TRUE) >>
          /\ UNCHANGED err
       \/ /\ \E msg \in SourceReadErrors : ReturnError(msg)
          /\ stmts' = stmts \o << Stmt("source", "fingerprint", NoKey, FALSE) >>
          /\ UNCHANGED sourceData
    /\ UNCHANGED << args, aux, tgtTable, txTable, txState, targetData, diff, idx, columns, hist >>

\* Variant: the error of the target read is dropped (targetRows, _ :=)
\* and the run goes on with what was read, here nothing.
FingerprintTargetIgnoresError ==
    /\ pc = "fpTarget"
    /\ \/ /\ \E m \in ScanFingerprints(tgtTable,
                        TargetRowKeys(tgtTable, pkCols, TargetArgs(sourceData))) :
                targetData' = m
          /\ stmts' = stmts \o << Stmt("target", "fingerprint", NoKey, TRUE) >>
       \/ /\ targetData' = Empty
          /\ stmts' = stmts \o << Stmt("target", "fingerprint", NoKey, FALSE) >>
    /\ pc' = "begin"
    /\ UNCHANGED << args, aux, tgtTable, txTable, txState, sourceData, diff, idx,
                    columns, hist, err >>

\* Lines 168-222: the target fingerprint query and its scan loop.
FingerprintTarget ==
    /\ pc = "fpTarget"
    /\ \/ /\ \E m \in ScanFingerprints(tgtTable,
                        TargetRowKeys(tgtTable, pkCols, TargetArgs(sourceData))) :
                targetData' = m
          /\ pc' = "begin"
          /\ stmts' = stmts \o << Stmt("target", "fingerprint", NoKey, TRUE) >>
          /\ UNCHANGED err
       \/ /\ \E msg \in TargetReadErrors : ReturnError(msg)
          /\ stmts' = stmts \o << Stmt("target", "fingerprint", NoKey, FALSE) >>
          /\ UNCHANGED targetData
    /\ UNCHANGED << args, aux, tgtTable, txTable, txState, sourceData, diff, idx, columns, hist >>

\* Lines 224-232: target.Begin and the registration of the deferred rollback.
Begin ==
    /\ pc = "begin"
    /\ \/ /\ txState' = "open"
          /\ txTable' = tgtTable
          /\ pc' = "defer"
          /\ stmts' = stmts \o << Stmt("target", "begin", NoKey, TRUE) >>
          /\ UNCHANGED err
       \/ /\ ReturnError("error beginning transaction on target")
          /\ stmts' = stmts \o << Stmt("target", "begin", NoKey, FALSE) >>
          /\ UNCHANGED << txState, txTable >>
    /\ UNCHANGED << args, aux, tgtTable, sourceData, targetData, diff, idx, columns, hist >>

\* Variant: the error of SET CONSTRAINTS ALL DEFERRED is not checked and
\* the run goes on to the loops.
DeferAndDiffIgnoresError ==
    /\ pc = "defer"
    /\ keysToInsert' \in Orderings(InsertKeys(sourceData, targetData))
    /\ keysToUpsert' \in Orderings(UpsertKeys(sourceData, targetData, force))
    /\ keysToDelete' \in Orderings(DeleteKeys(sourceData, targetData))
    /\ idx' = 1
    /\ columns' = NoRowData
    /\ pc' = "apply"
    /\ \E ok \in BOOLEAN :
          stmts' = stmts \o << Stmt("target", "defer", NoKey, ok) >>
    /\ UNCHANGED << args, aux, sourceData, targetData, hist, err, txState,
                    txTable, tgtTable >>

\* Lines 234-263: SET CONSTRAINTS ALL DEFERRED, then the classification
\* of the keys.  The three slices are filled in map iteration order.
DeferAndDiff ==
    /\ pc = "defer"
    /\ \/ /\ keysToInsert' \in Orderings(InsertKeys(sourceData, targetData))
          /\ keysToUpsert' \in Orderings(UpsertKeys(sourceData, targetData, force))
          /\ keysToDelete' \in Orderings(DeleteKeys(sourceData, targetData))
          /\ idx' = 1
          /\ columns' = NoRowData
          /\ pc' = "apply"
          /\ stmts' = stmts \o << Stmt("target", "defer", NoKey, TRUE) >>
          /\ UNCHANGED << err, txState, txTable, tgtTable >>
       \/ /\ ReturnErrorInTx("error deferring constraints on target")
          /\ stmts' = stmts \o << Stmt("target", "defer", NoKey, FALSE), RollbackStmt >>
          /\ UNCHANGED << diff, idx, columns >>
    /\ UNCHANGED << args, aux, sourceData, targetData, hist >>

\* append(keysToInsert, keysToUpsert...)
UpsertQueue == keysToInsert \o keysToUpsert

\* Variant: a materializing read that finds no row (pgx.ErrNoRows) moves
\* on to the next key instead of returning the error.
MaterializeRowSkipsMissing ==
    /\ pc = "apply"
    /\ idx <= Len(UpsertQueue)
    /\ LET key == UpsertQueue[idx]
           pkValues == splitKey(key)
       IN  \/ /\ ArgsFit(pkCols, pkValues)
              /\ pkValues \in DOMAIN srcTable
              /\ columns' = << srcTable[pkValues].val >>
              /\ pc' = "upsert"
              /\ stmts' = stmts \o << Stmt("source", "select", key, TRUE) >>
              /\ UNCHANGED << idx, err, txState, txTable, tgtTable >>
           \/ /\ pkValues \notin DOMAIN srcTable
              /\ idx' = idx + 1
              /\ stmts' = stmts \o << Stmt("source", "select", key, FALSE) >>
              /\ UNCHANGED << pc, columns, err, txState, txTable, tgtTable >>
           \/ /\ pkValues \in DOMAIN srcTable
              /\ ReturnErrorInTx("error scanning source row data")
              /\ stmts' = stmts \o << Stmt("source", "select", key, FALSE),
                                      RollbackStmt >>
              /\ UNCHANGED << idx, columns >>
    /\ UNCHANGED << args, aux, sourceData, targetData, diff, hist >>

\* Lines 288-305: the materializing read of the next key of the upsert
\* loop: source.QueryRow and Scan into columns.  It fails when the row is
\* gone, when the arguments do not fit the statement, or on the connection.
MaterializeRow ==
    /\ pc = "apply"
    /\ idx <= Len(UpsertQueue)
    /\ LET key == UpsertQueue[idx]
           pkValues == splitKey(key)
       IN  \/ /\ ArgsFit(pkCols, pkValues)
              /\ pkValues \in DOMAIN srcTable
              /\ columns' = << srcTable[pkValues].val >>
              /\ pc' = "upsert"
              /\ stmts' = stmts \o << Stmt("source", "select", key, TRUE) >>
              /\ UNCHANGED << idx, err, txState, txTable, tgtTable >>
           \/ /\ ReturnErrorInTx("error scanning source row data")
              /\ stmts' = stmts \o << Stmt("source", "select", key, FALSE),
                                      RollbackStmt >>
              /\ UNCHANGED << idx, columns >>
    /\ UNCHANGED << args, aux, sourceData, targetData, diff, hist >>

\* Variant: the upsert writes the content that was fingerprinted (a row
\* kept from the first read) instead of the values just read.
UpsertRowWritesFingerprinted ==
    /\ pc = "upsert"
    /\ LET key == UpsertQueue[idx]
           pkValues == splitKey(key)
       IN  \/ /\ key \notin badKeys
              /\ txTable' = UpsertInto(txTable, pkValues, sourceData[key][2])
              /\ idx' = idx + 1
              /\ pc' = "apply"
              /\ stmts' = stmts \o << Stmt("target", "upsert", key, TRUE) >>
              /\ UNCHANGED << err, txState, tgtTable >>
           \/ /\ ReturnErrorInTx("error upserting row into target")
              /\ stmts' = stmts \o << Stmt("target", "upsert", key, FALSE),
                                      RollbackStmt >>
              /\ UNCHANGED idx
    /\ columns' = NoRowData
    /\ UNCHANGED << args, aux, sourceData, targetData, diff, hist >>

\* Lines 307-310: tx.Exec of the upsert with the values in columns, a
\* second round trip after the read.
UpsertRow ==
    /\ pc = "upsert"
    /\ LET key == UpsertQueue[idx]
           pkValues == splitKey(key)
       IN  \/ /\ key \notin badKeys
              /\ txTable' = UpsertInto(txTable, pkValues, columns[1])
              /\ idx' = idx + 1
              /\ pc' = "apply"
              /\ stmts' = stmts \o << Stmt("target", "upsert", key, TRUE) >>
              /\ UNCHANGED << err, txState, tgtTable >>
           \/ /\ ReturnErrorInTx("error upserting row into target")
              /\ stmts' = stmts \o << Stmt("target", "upsert", key, FALSE),
                                      RollbackStmt >>
              /\ UNCHANGED idx
    /\ columns' = NoRowData
    /\ UNCHANGED << args, aux, sourceData, targetData, diff, hist >>

\* Lines 313-324: one iteration of the delete loop.
DeleteRow ==
    /\ pc = "apply"
    /\ idx > Len(UpsertQueue)
    /\ idx <= Len(UpsertQueue) + Len(keysToDelete)
    /\ LET key == keysToDelete[idx - Len(UpsertQueue)]
           pkValues == splitKey(key)
       IN  \/ /\ ArgsFit(pkCols, pkValues)
              /\ txTable' = DeleteFrom(txTable, pkValues)
              /\ idx' = idx + 1
              /\ stmts' = stmts \o << Stmt("target", "delete", key, TRUE) >>
              /\ UNCHANGED << pc, err, txState, tgtTable >>
           \/ /\ ReturnErrorInTx("error deleting row from target")
              /\ stmts' = stmts \o << Stmt("target", "delete", key, FALSE),
                                      RollbackStmt >>
              /\ UNCHANGED idx
    /\ UNCHANGED << args, aux, sourceData, targetData, diff, columns, hist >>

\* COMMIT checks the constraints that SET CONSTRAINTS ALL DEFERRED (line
\* 234) postponed: it succeeds only when no upserted row breaks one.
DeferredChecksPass == Range(UpsertQueue) \cap lateKeys = {}

\* Variant: the dry-run flag is not consulted and the transaction commits.
FinishIgnoresDryRun ==
    /\ pc = "apply"
    /\ idx > Len(UpsertQueue) + Len(keysToDelete)
    /\ pc' = "done"
    /\ \/ /\ DeferredChecksPass
          /\ CommitTx
          /\ stmts' = stmts \o << Stmt("target", "commit", NoKey, TRUE) >>
          /\ UNCHANGED err
       \/ /\ CommitFailed
          /\ stmts' = stmts \o << Stmt("target", "commit", NoKey, FALSE) >>
          /\ err' = "error committing transaction"
    /\ UNCHANGED << args, aux, sourceData, targetData, diff, idx, columns, hist >>

\* Lines 326-344: rollback under --dry-run, commit otherwise.  A failed
\* rollback closes the transaction all the same (pgx closes the
\* connection), and the deferred rollback then finds it closed.
Finish ==
    /\ pc = "apply"
    /\ idx > Len(UpsertQueue) + Len(keysToDelete)
    /\ pc' = "done"
    /\ IF dryRun
       THEN /\ RollbackTx
            /\ \E ok \in BOOLEAN :
                  /\ err' = IF ok THEN "" ELSE "error rolling back transaction"
                  /\ stmts' = stmts \o << Stmt("target", "rollback", NoKey, ok) >>
       ELSE \/ /\ DeferredChecksPass
               /\ CommitTx
               /\ stmts' = stmts \o << Stmt("target", "commit", NoKey, TRUE) >>
               /\ UNCHANGED err
            \/ /\ CommitFailed
               /\ stmts' = stmts \o << Stmt("target", "commit", NoKey, FALSE) >>
               /\ err' = "error committing transaction"
    /\ UNCHANGED << args, aux, sourceData, targetData, diff, idx, columns, hist >>

\* The caller invokes makeTableSame again with the same arguments.
Rerun ==
    /\ pc = "done"
    /\ tgtBefore' = tgtTable
    /\ prevCommitted' = (txState = "committed" /\ err = "")
    /\ pc' = "schema"
    /\ err' = ""
    /\ txState' = "none"
    /\ txTable' = tgtTable
    /\ sourceData' = Empty
    /\ targetData' = Empty
    /\ keysToInsert' = << >>
    /\ keysToUpsert' = << >>
    /\ keysToDelete' = << >>
    /\ idx' = 1
    /\ columns' = NoRowData
    /\ stmts' = << >>
    /\ UNCHANGED << args, aux, tgtTable >>

Next ==
    \/ Introspect
    \/ FingerprintSource
    \/ FingerprintTarget
    \/ Begin
    \/ DeferAndDiff
    \/ MaterializeRow
    \/ UpsertRow
    \/ DeleteRow
    \/ Finish
    \/ Rerun

Spec == Init /\ [][Next]_vars

\* ------------------------------------------- the source under other writers
\* Another session deletes a source row or changes its ordinary column.
\* Every statement of the run is a round trip of its own, and the source
\* reads run outside any transaction, so the write can land between any
\* two of them: before or after the fingerprint query, between a
\* materializing read (line 294) and its upsert (line 307), or after the
\* last upsert and before the commit (line 335).
SourceWrite ==
    /\ pc # "done"
    /\ writes < MaxWrites
    /\ writes' = writes + 1
    /\ \E k \in DOMAIN srcTable :
          \/ srcTable' = DeleteFrom(srcTable, k)
          \/ \E v \in Vals \ { srcTable[k].val } :
                srcTable' = [srcTable EXCEPT ![k].val = v]
    /\ UNCHANGED << pkCols, where, dryRun, force, tgtTable, txTable, txState,
                    pc, err, sourceData, targetData, diff, idx, columns, hist, stmts,
                    badKeys, lateKeys, prevRun, keyTest, quoteTest >>

NextConc ==
    \/ Introspect
    \/ FingerprintSource
    \/ FingerprintTarget
    \/ Begin
    \/ DeferAndDiff
    \/ MaterializeRow
    \/ UpsertRow
    \/ DeleteRow
    \/ Finish
    \/ SourceWrite

\* Runs without a filter, on tables one row smaller than in Init and with
\* the source's search_vector at its default: the filter only selects the
\* rows that are fingerprinted, search_vector of a source row only enters
\* its hash, and the writer multiplies the states of every run.
InitConc ==
    /\ Init
    /\ where = ""
    /\ Cardinality(DOMAIN srcTable) + Cardinality(DOMAIN tgtTable) <= MaxRows - 1
    /\ \A k \in DOMAIN srcTable : srcTable[k].sv = DefaultSV

SpecConc == InitConc /\ [][NextConc]_vars

\* ------------------------------------------ a dry-run, then the real run
\* The encoded key of the row whose key values are all "1".
FirstKey(cols) == makeKey([i \in 1..Len(cols) |-> << "1" >>])

\* The target's constraints: none that the data can break, one that
\* rejects the row FirstKey at once (a CHECK, a NOT DEFERRABLE foreign
\* key), or a DEFERRABLE one that this row breaks.
ConstraintChoices(cols) ==
    { [bad |-> {}, late |-> {}],
      [bad |-> { FirstKey(cols) }, late |-> {}],
      [bad |-> {}, late |-> { FirstKey(cols) }] }

\* pig is first called with --dry-run, on a table with a primary key; the
\* tables are one row smaller than in Init.
InitDry ==
    /\ pkCols \in PkColsChoices \ { << >> }
    /\ where \in Filters
    /\ dryRun = TRUE
    /\ force \in BOOLEAN
    /\ srcTable \in Tables(pkCols, MaxRows - 1)
    /\ tgtTable \in Tables(pkCols, MaxRows - 1 - Cardinality(DOMAIN srcTable))
    /\ txTable = tgtTable
    /\ txState = "none"
    /\ pc = "schema"
    /\ err = ""
    /\ sourceData = Empty
    /\ targetData = Empty
    /\ keysToInsert = << >>
    /\ keysToUpsert = << >>
    /\ keysToDelete = << >>
    /\ idx = 1
    /\ columns = NoRowData
    /\ tgtBefore = tgtTable
    /\ prevCommitted = FALSE
    /\ stmts = << >>
    /\ \E c \in ConstraintChoices(pkCols) :
          /\ badKeys = c.bad
          /\ lateKeys = c.late
    /\ prevRun = NoRun
    /\ writes = 0
    /\ keyTest = NoKeyTest
    /\ quoteTest = NoQuoteTest

\* The operator runs pig again with the same arguments less --dry-run.
\* What the dry-run returned and, when it returned nil, the statements it
\* sent are kept for the comparison.
RerunReal ==
    /\ pc = "done"
    /\ dryRun
    /\ dryRun' = FALSE
    /\ prevRun' = [valid |-> TRUE, dry |-> TRUE, ok |-> (err = ""),
                   stmts |-> IF err = "" THEN Range(stmts) ELSE {}]
    /\ tgtBefore' = tgtTable
    /\ prevCommitted' = FALSE
    /\ pc' = "schema"
    /\ err' = ""
    /\ txState' = "none"
    /\ txTable' = tgtTable
    /\ sourceData' = Empty
    /\ targetData' = Empty
    /\ keysToInsert' = << >>
    /\ keysToUpsert' = << >>
    /\ keysToDelete' = << >>
    /\ idx' = 1
    /\ columns' = NoRowData
    /\ stmts' = << >>
    /\ UNCHANGED << pkCols, where, force, srcTable, tgtTable, badKeys, lateKeys,
                    writes, keyTest, quoteTest >>

NextDry ==
    \/ Introspect
    \/ FingerprintSource
    \/ FingerprintTarget
    \/ Begin
    \/ DeferAndDiff
    \/ MaterializeRow
    \/ UpsertRow
    \/ DeleteRow
    \/ Finish
    \/ RerunReal

SpecDry == InitDry /\ [][NextDry]_vars

\* ------------------------------------- key values that hold the separator
\* Values of a text primary-key column of which one holds "::".
ColonKeyVals == { << "a" >>, << "b" >>, << "a", ":", ":", "b" >> }

\* Row identities when the one-column key takes these values.
ColonKeyTuples(cols) ==
    IF Len(cols) = 1 THEN { << v >> : v \in ColonKeyVals } ELSE KeyTuples(cols)

\* The tables over the given key tuples that hold at most n rows.
TablesOver(K, n) ==
    UNION { [D -> Rows] : D \in { D \in SUBSET K : Cardinality(D) <= n } }

\* One call of makeTableSame on a table with a primary key; the tables are
\* one row smaller than in Init.
InitColon ==
    /\ pkCols \in PkColsChoices \ { << >> }
    /\ where \in Filters
    /\ dryRun \in BOOLEAN
    /\ force \in BOOLEAN
    /\ srcTable \in TablesOver(ColonKeyTuples(pkCols), MaxRows - 1)
    /\ tgtTable \in TablesOver(ColonKeyTuples(pkCols),
                                MaxRows - 1 - Cardinality(DOMAIN srcTable))
    /\ txTable = tgtTable
    /\ txState = "none"
    /\ pc = "schema"
    /\ err = ""
    /\ sourceData = Empty
    /\ targetData = Empty
    /\ keysToInsert = << >>
    /\ keysToUpsert = << >>
    /\ keysToDelete = << >>
    /\ idx = 1
    /\ columns = NoRowData
    /\ tgtBefore = tgtTable
    /\ prevCommitted = FALSE
    /\ stmts = << >>
    /\ badKeys = {}
    /\ lateKeys = {}
    /\ prevRun = NoRun
    /\ writes = 0
    /\ keyTest = NoKeyTest
    /\ quoteTest = NoQuoteTest

NextColon ==
    \/ Introspect
    \/ FingerprintSource
    \/ FingerprintTarget
    \/ Begin
    \/ DeferAndDiff
    \/ MaterializeRow
    \/ UpsertRow
    \/ DeleteRow
    \/ Finish

SpecColon == InitColon /\ [][NextColon]_vars

\* --------------------------------------------- the quoting on its own
\* Column names over a letter and the double quote, of one to MaxIdLen
\* characters, and the lists of one or two of them.
IdChars == { "a", Quote }
IdNames == UNION { [1..n -> IdChars] : n \in 1..MaxIdLen }
ColumnLists ==
    { << s >> : s \in IdNames } \cup { << s, t >> : s \in IdNames, t \in IdNames }

\* A column list as the catalog query returned it.
InitQuote ==
    /\ pkCols = << "a", "b" >>
    /\ where = ""
    /\ dryRun = FALSE
    /\ force = FALSE
    /\ srcTable = Empty
    /\ tgtTable = Empty
    /\ txTable = Empty
    /\ txState = "none"
    /\ pc = "schema"
    /\ err = ""
    /\ sourceData = Empty
    /\ targetData = Empty
    /\ keysToInsert = << >>
    /\ keysToUpsert = << >>
    /\ keysToDelete = << >>
    /\ idx = 1
    /\ columns = NoRowData
    /\ tgtBefore = Empty
    /\ prevCommitted = FALSE
    /\ stmts = << >>
    /\ badKeys = {}
    /\ lateKeys = {}
    /\ prevRun = NoRun
    /\ writes = 0
    /\ keyTest = NoKeyTest
    /\ \E l \in ColumnLists :
          quoteTest = [NoQuoteTest EXCEPT !.catalog = l, !.cols = l]

\* Lines 430-435: joinIdentifiers overwrites each element of the slice
\* with its quoted form.
JoinIdentifiers ==
    /\ quoteTest.phase = "none"
    /\ quoteTest.cols # << >>
    /\ quoteTest' = [quoteTest EXCEPT
                        !.cols = [i \in 1..Len(quoteTest.cols) |->
                                    quoteIdentifier(quoteTest.cols[i])],
                        !.phase = "joined"]
    /\ UNCHANGED << args, tgtTable, txTable, txState, pc, err, sourceData,
                    targetData, diff, idx, columns, hist, stmts, badKeys, lateKeys,
                    prevRun, writes, keyTest >>

\* Lines 168-171, 270-272 and 405-411: the elements of the same slice are
\* quoted again for the WHERE clauses and the SET list.
QuoteAgain ==
    /\ quoteTest.phase = "joined"
    /\ quoteTest' = [quoteTest EXCEPT
                        !.requoted = [i \in 1..Len(quoteTest.cols) |->
                                        quoteIdentifier(quoteTest.cols[i])],
                        !.phase = "requoted"]
    /\ UNCHANGED << args, tgtTable, txTable, txState, pc, err, sourceData,
                    targetData, diff, idx, columns, hist, stmts, badKeys, lateKeys,
                    prevRun, writes, keyTest >>

NextQuote == JoinIdentifiers \/ QuoteAgain

SpecQuote == InitQuote /\ [][NextQuote]_vars

\* ------------------------------------------- the key encoding on its own
\* Key values as text over a letter and the colon, up to MaxKeyLen
\* characters, and the tuples of one or two of them.
KeyChars == { "a", ":" }
KeyTexts == UNION { [1..n -> KeyChars] : n \in 0..MaxKeyLen }
KeyInputs == { <<s>> : s \in KeyTexts } \cup { <<s, t>> : s \in KeyTexts, t \in KeyTexts }

\* Two key tuples of the same length, before makeTableSame is called.
InitKey ==
    /\ pkCols = << "a", "b" >>
    /\ where = ""
    /\ dryRun = FALSE
    /\ force = FALSE
    /\ srcTable = Empty
    /\ tgtTable = Empty
    /\ txTable = Empty
    /\ txState = "none"
    /\ pc = "schema"
    /\ err = ""
    /\ sourceData = Empty
    /\ targetData = Empty
    /\ keysToInsert = << >>
    /\ keysToUpsert = << >>
    /\ keysToDelete = << >>
    /\ idx = 1
    /\ columns = NoRowData
    /\ tgtBefore = Empty
    /\ prevCommitted = FALSE
    /\ stmts = << >>
    /\ badKeys = {}
    /\ lateKeys = {}
    /\ prevRun = NoRun
    /\ writes = 0
    /\ \E u \in KeyInputs, v \in KeyInputs :
          /\ Len(u) = Len(v)
          /\ keyTest = [NoKeyTest EXCEPT !.u = u, !.v = v]
    /\ quoteTest = NoQuoteTest

\* makeKey on both tuples.
EncodeKeys ==
    /\ ~keyTest.applied
    /\ keyTest.encU = << >> /\ keyTest.encV = << >> /\ keyTest.decV = << >>
    /\ keyTest' = [keyTest EXCEPT !.applied = TRUE,
                                  !.encU = makeKey(keyTest.u),
                                  !.encV = makeKey(keyTest.v)]
    /\ UNCHANGED << args, tgtTable, txTable, txState, pc, err, sourceData,
                    targetData, diff, idx, columns, hist, stmts, badKeys, lateKeys, prevRun,
                    writes, quoteTest >>

\* splitKey on the encoding of the second tuple.
DecodeKey ==
    /\ keyTest.applied
    /\ keyTest.decV = << >>
    /\ keyTest' = [keyTest EXCEPT !.decV = splitKey(keyTest.encV)]
    /\ UNCHANGED << args, tgtTable, txTable, txState, pc, err, sourceData,
                    targetData, diff, idx, columns, hist, stmts, badKeys, lateKeys, prevRun,
                    writes, quoteTest >>

NextKey == EncodeKeys \/ DecodeKey

SpecKey == InitKey /\ [][NextKey]_vars

\* ---------------------------------------------------------------- claims
\* The classification of lines 239-257 has been computed in this invocation.
DiffDone ==
    \/ pc \in { "apply", "upsert" }
    \/ /\ pc = "done"
       /\ txState \in { "committed", "rolledback" }
       /\ err # "error deferring constraints on target"

\* Keys in both mappings with equal hashes, force off.
UnchangedKeys ==
    { key \in DOMAIN sourceData \cap DOMAIN targetData :
        sourceData[key] = targetData[key] /\ ~force }

\* The committed target holds, for the non-excluded columns, what the source
\* holds under the keys of the upsert loop, and no row under the keys of the
\* delete loop.
PatchPersisted ==
    /\ \A key \in Range(UpsertQueue) :
          /\ splitKey(key) \in DOMAIN tgtTable
          /\ splitKey(key) \in DOMAIN srcTable
          /\ tgtTable[splitKey(key)].val = srcTable[splitKey(key)].val
    /\ \A key \in Range(keysToDelete) : splitKey(key) \notin DOMAIN tgtTable

\* No key present on both sides differs in search_vector, and no source row
\* carries a search_vector other than the column default.
NoExcludedDivergence ==
    /\ \A k \in DOMAIN srcTable : srcTable[k].sv = DefaultSV
    /\ \A k \in DOMAIN tgtTable : tgtTable[k].sv = DefaultSV

\* C1: after a successful run that reached its commit, with no filter,
\* dry-run off and force off, the target table holds exactly the source
\* table's rows: the same keys, each with the source's content in the
\* columns the run writes.
C1_TargetEqualsSource ==
    (pc = "done" /\ err = "" /\ txState = "committed"
        /\ where = "" /\ ~dryRun /\ ~force)
    => /\ DOMAIN tgtTable = DOMAIN srcTable
       /\ \A k \in DOMAIN srcTable : tgtTable[k].val = srcTable[k].val

\* C2: keysToInsert, keysToUpsert and keysToDelete are pairwise disjoint,
\* hold no key twice, and together with the unchanged keys cover exactly
\* keys(sourceData) \cup keys(targetData), each key in exactly one class.
C2_DiffPartition ==
    DiffDone =>
        LET I == Range(keysToInsert)
            U == Range(keysToUpsert)
            D == Range(keysToDelete)
        IN  /\ I \cap U = {} /\ I \cap D = {} /\ U \cap D = {}
            /\ UnchangedKeys \cap (I \cup U \cup D) = {}
            /\ Cardinality(I) = Len(keysToInsert)
            /\ Cardinality(U) = Len(keysToUpsert)
            /\ Cardinality(D) = Len(keysToDelete)
            /\ I \cup U \cup D \cup UnchangedKeys
                 = DOMAIN sourceData \cup DOMAIN targetData

\* C2 witness: a diff with a key to insert and a key to delete.
C2_Witness ==
    /\ pc = "apply"
    /\ keysToInsert # << >>
    /\ keysToDelete # << >>

\* C3: the patch is all-or-nothing: the committed target changes only by a
\* successful commit; a run that returns an error leaves the target as it
\* was before the run, and a run that changed the target persisted every
\* upsert and every delete of its patch.
C3_AllOrNothing ==
    /\ (pc # "done" \/ err # "") => tgtTable = tgtBefore
    /\ (pc = "done" /\ tgtTable # tgtBefore)
         => (err = "" /\ txState = "committed" /\ PatchPersisted)

\* C3 witness: the commit itself failed after an upsert and a delete had
\* been executed in the transaction, and the target is as before the run.
C3_Witness ==
    /\ pc = "done"
    /\ err = "error committing transaction"
    /\ UpsertQueue # << >>
    /\ keysToDelete # << >>
    /\ tgtTable = tgtBefore

\* C4: with dry-run set the target table after the run, successful or not,
\* is the target table before the run.
C4_DryRunLeavesTarget ==
    dryRun => tgtTable = tgtBefore

\* C4 witness: a successful dry run whose patch was not empty.
C4_Witness ==
    /\ dryRun
    /\ pc = "done"
    /\ err = ""
    /\ txState = "rolledback"
    /\ UpsertQueue # << >>
    /\ keysToDelete # << >>

\* C5: after a run with force off and dry-run off has committed, and with
\* no excluded-column divergence between the tables, running again against
\* the same source with the same filter computes empty keysToInsert,
\* keysToUpsert and keysToDelete.
C5_RerunIsEmpty ==
    (prevCommitted /\ ~force /\ ~dryRun /\ NoExcludedDivergence /\ DiffDone)
    => /\ keysToInsert = << >>
       /\ keysToUpsert = << >>
       /\ keysToDelete = << >>

\* C6: on every return of makeTableSame after target.Begin succeeded the
\* transaction has been committed or rolled back.
C6_TxClosedOnReturn ==
    pc = "done" => txState # "open"

\* C6 witness: a return on a failed upsert, the transaction rolled back.
C6_Witness ==
    /\ pc = "done"
    /\ err = "error upserting row into target"
    /\ txState = "rolledback"

\* C7: for a composite primary key the target fingerprint mapping holds
\* exactly the target rows whose full key tuple is a source key tuple, and
\* no key tuple present in the target is classified ToInsert.
C7_CompositeKeysCorrect ==
    Len(pkCols) = 2 =>
        /\ pc = "begin" =>
              DOMAIN targetData
                = { makeKey(k) : k \in { t \in DOMAIN tgtTable :
                                           makeKey(t) \in DOMAIN sourceData } }
        /\ pc = "apply" =>
              \A key \in Range(keysToInsert) : splitKey(key) \notin DOMAIN tgtBefore

\* C8: with a filter, every target row whose key is not in the filtered
\* source fingerprint set is the same after a successful run as before it.
C8_FilterLeavesOthers ==
    (where # "" /\ pc = "done" /\ err = "")
    => \A k \in DOMAIN tgtBefore :
          makeKey(k) \notin DOMAIN sourceData
            => (k \in DOMAIN tgtTable /\ tgtTable[k] = tgtBefore[k])

\* C9: when the source fingerprint mapping is empty, a successful run has
\* classified every key of the target ToDelete and, without dry-run,
\* deleted it.
C9_EmptySourceDeletesAll ==
    (pc = "done" /\ err = "" /\ DOMAIN sourceData = {})
    => \A k \in DOMAIN tgtBefore :
          /\ makeKey(k) \in Range(keysToDelete)
          /\ ~dryRun => k \notin DOMAIN tgtTable

\* C10: with force set, every key in both fingerprint mappings is in
\* keysToUpsert, equal hashes or not, and every source key missing from the
\* target mapping is in keysToInsert.
C10_ForceUpsertsShared ==
    (force /\ DiffDone) =>
        \A key \in DOMAIN sourceData :
            /\ key \in DOMAIN targetData => key \in Range(keysToUpsert)
            /\ key \notin DOMAIN targetData => key \in Range(keysToInsert)

\* C10 witness: force set, a shared key with equal hashes in keysToUpsert
\* and another key in keysToInsert.
C10_Witness ==
    /\ force
    /\ pc = "apply"
    /\ keysToInsert # << >>
    /\ \E key \in DOMAIN sourceData \cap DOMAIN targetData :
          /\ sourceData[key] = targetData[key]
          /\ key \in Range(keysToUpsert)

\* A statement on the target connection is among those sent so far.
TargetStmts == { i \in 1..Len(stmts) : stmts[i].conn = "target" }

\* C11: when the table has no declared primary key, makeTableSame returns
\* an error, and no statement is sent to the target and no target
\* transaction is begun.
C11_NoPrimaryKeyFailsFirst ==
    Len(pkCols) = 0 =>
        /\ TargetStmts = {}
        /\ txState = "none"
        /\ pc \in { "schema", "done" }
        /\ pc = "done" => err # ""

\* C11 witness: a run on a table without a primary key, with rows on both
\* sides, has returned the error.
C11_Witness ==
    /\ Len(pkCols) = 0
    /\ pc = "done"
    /\ err = "table has no primary key"
    /\ DOMAIN srcTable # {}
    /\ DOMAIN tgtTable # {}

\* The source row of the key the upsert loop is about to materialize is gone.
NextRowVanished ==
    /\ pc = "apply"
    /\ idx <= Len(UpsertQueue)
    /\ splitKey(UpsertQueue[idx]) \notin DOMAIN srcTable

\* C12: when the source row of a key of the upsert loop has been removed
\* before its materializing read, the step that reads it returns an
\* error and rolls the transaction back: the loop does not move on to the
\* next key, and the committed target stays as it was before the run.
C12_VanishedRowFailsRun ==
    [][ (NextRowVanished /\ stmts' # stmts)
          => /\ pc' = "done"
             /\ err' = "error scanning source row data"
             /\ txState' = "rolledback"
             /\ tgtTable' = tgtBefore ]_vars

\* C12 witness: the run failed on the materializing read of a removed row
\* after an earlier key had been upserted, and the target is as before.
C12_Witness ==
    /\ pc = "done"
    /\ err = "error scanning source row data"
    /\ writes = 1
    /\ idx > 1
    /\ idx <= Len(UpsertQueue)
    /\ splitKey(UpsertQueue[idx]) \notin DOMAIN srcTable
    /\ txState = "rolledback"
    /\ tgtTable = tgtBefore

\* The positions of the log at which a fingerprint read failed.
FailedFingerprints ==
    { i \in 1..Len(stmts) : stmts[i].op = "fingerprint" /\ ~stmts[i].ok }

\* C13: a read failure while fingerprinting the source or the target makes
\* makeTableSame return an error at once, before target.Begin: the failed
\* read is the last statement of the run, no transaction exists, the only
\* statements the target has received are fingerprint reads and the target
\* table is as it was.
C13_ReadFailureBeforeBegin ==
    \A i \in FailedFingerprints :
        /\ i = Len(stmts)
        /\ pc = "done"
        /\ err \in (IF stmts[i].conn = "source" THEN SourceReadErrors
                                                ELSE TargetReadErrors)
        /\ txState = "none"
        /\ \A j \in TargetStmts : stmts[j].op = "fingerprint"
        /\ tgtTable = tgtBefore

\* A target scan failed in a run whose source has a row the target lacks,
\* so that an upsert was due.
C13_Witness ==
    /\ pc = "done"
    /\ err = "error scanning target row"
    /\ FailedFingerprints # {}
    /\ \E k \in DOMAIN srcTable : k \notin DOMAIN tgtTable
    /\ txState = "none"
    /\ tgtTable = tgtBefore

\* splitKey has been applied to the encoding of keyTest.v.
KeyDecoded == keyTest.applied /\ keyTest.decV # << >>

\* C14: the key encoding is injective and reversible: two key tuples of
\* the same length have the same encoding iff they are equal, and splitKey
\* of makeKey(v) is the tuple of the texts of v, also when a value
\* contains "::".
C14_KeyEncodingInjective ==
    KeyDecoded =>
        /\ (keyTest.encU = keyTest.encV) <=> (keyTest.u = keyTest.v)
        /\ keyTest.decV = [i \in 1..Len(keyTest.v) |-> Sprint(keyTest.v[i])]

\* The same for key values without a colon, where it holds.
C14_ColonFreeKeys ==
    ( /\ KeyDecoded
      /\ \A i \in 1..Len(keyTest.u) : ":" \notin Range(keyTest.u[i])
      /\ \A i \in 1..Len(keyTest.v) : ":" \notin Range(keyTest.v[i]) )
    => /\ (keyTest.encU = keyTest.encV) <=> (keyTest.u = keyTest.v)
       /\ keyTest.decV = [i \in 1..Len(keyTest.v) |-> Sprint(keyTest.v[i])]

\* The run committed its transaction and returned nil.
CommittedRun == pc = "done" /\ txState = "committed" /\ err = ""

\* C15: after a committed run, every key of the upsert loop has a target
\* row, and when that row and the source row carry the same search_vector
\* the content hash of the target row is the hash the source fingerprint
\* recorded for the key.
C15_RoundTripHash ==
    CommittedRun =>
        \A key \in Range(UpsertQueue) :
            LET k == splitKey(key)
            IN  /\ k \in DOMAIN tgtTable
                /\ k \in DOMAIN srcTable
                /\ tgtTable[k].sv = srcTable[k].sv
                      => RowHash(k, tgtTable[k]) = sourceData[key]

\* A committed run that updated an existing row whose content differed and
\* inserted a new one, the excluded column agreeing on both.
C15_Witness ==
    /\ CommittedRun
    /\ \E key \in Range(keysToUpsert) :
          /\ splitKey(key) \in DOMAIN tgtBefore
          /\ tgtBefore[splitKey(key)].val # srcTable[splitKey(key)].val
          /\ tgtTable[splitKey(key)].sv = srcTable[splitKey(key)].sv
          /\ RowHash(splitKey(key), tgtTable[splitKey(key)]) = sourceData[key]
    /\ \E key \in Range(keysToInsert) :
          /\ splitKey(key) \notin DOMAIN tgtBefore
          /\ tgtTable[splitKey(key)].sv = srcTable[splitKey(key)].sv
          /\ RowHash(splitKey(key), tgtTable[splitKey(key)]) = sourceData[key]

\* Positions of the log holding a statement of the given kind.
StmtsOf(op) == { i \in 1..Len(stmts) : stmts[i].op = op }

\* Positions of the log holding a statement of the given kind that succeeded.
DoneStmtsOf(op) == { i \in StmtsOf(op) : stmts[i].ok }

\* C16: the statements of one run, read off the log when the run returns
\* (the log only grows during a run): the source fingerprint read and then
\* the target fingerprint read complete before BEGIN; no upsert or delete
\* is issued before BEGIN and SET CONSTRAINTS ALL DEFERRED have succeeded;
\* an upsert directly follows the materializing read of its key; every
\* upsert precedes every delete; and a commit or rollback is the last
\* statement, which every run that began a transaction ends with.
C16_StepOrdering ==
    pc = "done" =>
    LET n == Len(stmts)
        At(conn, op) == { i \in 1..n : stmts[i] = Stmt(conn, op, NoKey, TRUE) }
        srcRead == At("source", "fingerprint")
        tgtRead == At("target", "fingerprint")
        begun == At("target", "begin")
        deferred == At("target", "defer")
        Closing(i) == stmts[i].op \in { "commit", "rollback" }
    IN  /\ \A b \in 1..n :
              stmts[b].op = "begin" =>
                  \E s \in srcRead, t \in tgtRead : s < t /\ t < b
        /\ \A i \in 1..n :
              stmts[i].op \in { "upsert", "delete" } =>
                  \E b \in begun, d \in deferred : b < d /\ d < i
        /\ \A i \in 1..n :
              stmts[i].op = "upsert" =>
                  /\ i > 1
                  /\ stmts[i - 1] = Stmt("source", "select", stmts[i].key, TRUE)
                  /\ \A j \in 1..(i - 1) : stmts[j].op # "delete"
        /\ \A i \in 1..n : Closing(i) => i = n
        /\ begun # {} => Closing(n)

\* A committed run that issued an upsert and a delete.
C16_Witness ==
    /\ CommittedRun
    /\ StmtsOf("upsert") # {}
    /\ StmtsOf("delete") # {}
    /\ stmts[Len(stmts)] = Stmt("target", "commit", NoKey, TRUE)

\* The upsert and delete statements among a set of statements.
PatchStmts(S) == { st \in S : st.op \in { "upsert", "delete" } }

\* A real run has ended that follows a dry-run on the same inputs.
RealAfterDry == prevRun.valid /\ prevRun.dry /\ ~dryRun /\ pc = "done"

\* The real run sent every statement of its loops and reached COMMIT.
ReachedCommit == stmts # << >> /\ stmts[Len(stmts)].op = "commit"

\* A statement the target's constraints make fail in every real run on
\* these inputs.
WouldFail(st) ==
    \/ st.op = "upsert" /\ st.key \in badKeys
    \/ st.op = "commit" /\ ~DeferredChecksPass

\* C17: a dry-run validates the real patch: on the same inputs, a dry-run
\* that returned nil has sent the upsert and delete statements the real run
\* sends, the runs differing in the final ROLLBACK versus COMMIT only, and
\* a statement that fails in the real run made the dry-run return an error.
C17_DryRunValidates ==
    RealAfterDry =>
        /\ (prevRun.ok /\ ReachedCommit) =>
              /\ PatchStmts(prevRun.stmts) = PatchStmts(Range(stmts))
              /\ prevRun.stmts \ { RollbackStmt }
                    = Range(SubSeq(stmts, 1, Len(stmts) - 1))
              /\ RollbackStmt \in prevRun.stmts
        /\ (\E i \in 1..Len(stmts) : WouldFail(stmts[i]) /\ ~stmts[i].ok)
              => ~prevRun.ok

\* The part of C17 about the statements of the loops; it holds.
C17_LoopStatementsValidated ==
    RealAfterDry =>
        /\ (prevRun.ok /\ ReachedCommit) =>
              /\ PatchStmts(prevRun.stmts) = PatchStmts(Range(stmts))
              /\ prevRun.stmts \ { RollbackStmt }
                    = Range(SubSeq(stmts, 1, Len(stmts) - 1))
              /\ RollbackStmt \in prevRun.stmts
        /\ (\E i \in 1..Len(stmts) :
                stmts[i].op = "upsert" /\ WouldFail(stmts[i]) /\ ~stmts[i].ok)
              => ~prevRun.ok

\* A dry-run returned nil and the real run after it sent an upsert and a
\* delete and committed.
C17_SameStatementsReached ==
    /\ RealAfterDry
    /\ prevRun.ok
    /\ CommittedRun
    /\ StmtsOf("upsert") # {}
    /\ StmtsOf("delete") # {}

\* The dry-run returned an error for a row that the target rejects.
C17_RejectedRowReached ==
    /\ RealAfterDry
    /\ ~prevRun.ok
    /\ \E i \in 1..Len(stmts) :
          stmts[i].op = "upsert" /\ stmts[i].key \in badKeys /\ ~stmts[i].ok

\* C18: with force off, a key present in both fingerprint mappings with
\* equal hashes is in none of keysToInsert, keysToUpsert and keysToDelete,
\* no materializing read, upsert or delete is sent for it, and its target
\* row is, inside the transaction and after the run, the row it was.
C18_MinimalPatch ==
    (~force /\ DiffDone) =>
        \A key \in UnchangedKeys :
            /\ key \notin Range(keysToInsert) \cup Range(keysToUpsert)
                              \cup Range(keysToDelete)
            /\ \A i \in 1..Len(stmts) : stmts[i].key # key
            /\ splitKey(key) \in DOMAIN tgtBefore
            /\ splitKey(key) \in DOMAIN tgtTable
            /\ tgtTable[splitKey(key)] = tgtBefore[splitKey(key)]
            /\ txState = "open" =>
                  /\ splitKey(key) \in DOMAIN txTable
                  /\ txTable[splitKey(key)] = tgtBefore[splitKey(key)]

\* A committed run with force off that upserted one key and left another,
\* unchanged one alone.
C18_Witness ==
    /\ CommittedRun
    /\ ~force
    /\ UnchangedKeys # {}
    /\ StmtsOf("upsert") # {}
    /\ \A key \in UnchangedKeys :
          tgtTable[splitKey(key)] = tgtBefore[splitKey(key)]

\* Keys of the upserts that succeeded in this run, as key tuples.
UpsertedKeys == { splitKey(stmts[i].key) : i \in DoneStmtsOf("upsert") }

\* The table the statements of the run have produced so far: the open
\* transaction's view, or the committed table.
Produced == IF txState = "open" THEN txTable ELSE tgtTable

\* C19: search_vector is neither read from the source nor written by the
\* upsert: a target row that existed before the run and still exists
\* carries the search_vector it had, a row the run inserted carries the
\* column default whatever the source holds, and the ordinary column of
\* every upserted row is the source's value.
C19_ExcludedColumnsUntouched ==
    /\ \A k \in DOMAIN tgtBefore \cap DOMAIN Produced :
          Produced[k].sv = tgtBefore[k].sv
    /\ (txState \in { "open", "committed" }) =>
          \A k \in UpsertedKeys :
              /\ k \in DOMAIN Produced
              /\ k \in DOMAIN srcTable
              /\ Produced[k].val = srcTable[k].val
              /\ k \notin DOMAIN tgtBefore => Produced[k].sv = DefaultSV

\* A committed run that updated a row whose search_vector differs from the
\* source's and inserted a row whose source search_vector is not the
\* default.
C19_Witness ==
    /\ CommittedRun
    /\ \E k \in UpsertedKeys \cap DOMAIN tgtBefore :
          /\ tgtBefore[k].sv # srcTable[k].sv
          /\ tgtBefore[k].sv # DefaultSV
          /\ tgtBefore[k].val # srcTable[k].val
          /\ tgtTable[k] = [val |-> srcTable[k].val, sv |-> tgtBefore[k].sv]
    /\ \E k \in UpsertedKeys \ DOMAIN tgtBefore :
          /\ srcTable[k].sv # DefaultSV
          /\ tgtTable[k] = [val |-> srcTable[k].val, sv |-> DefaultSV]

\* Key tuples whose source row, selected by the filter, and target row
\* agree on the ordinary column and differ in search_vector.
ExcludedOnlyDiffers ==
    { k \in DOMAIN srcTable \cap DOMAIN tgtBefore :
        /\ WhereHolds(where, srcTable[k])
        /\ srcTable[k].val = tgtBefore[k].val
        /\ srcTable[k].sv # tgtBefore[k].sv }

\* C20: with force off, a key whose source and target rows agree on every
\* non-excluded column and differ in search_vector is classified into
\* keysToUpsert, the fingerprint being computed over the complete row.
C20_ExcludedDifferenceUpserts ==
    (~force /\ DiffDone) =>
        \A k \in ExcludedOnlyDiffers : makeKey(k) \in Range(keysToUpsert)

\* The same for a primary key of one column, where it holds.
C20_OneColumnKey ==
    (~force /\ DiffDone /\ Len(pkCols) = 1) =>
        \A k \in ExcludedOnlyDiffers : makeKey(k) \in Range(keysToUpsert)

\* C21: for a table with a primary key of one column, the keys of
\* targetData are a subset of the keys of sourceData, keysToDelete is
\* empty and no DELETE is sent to the target, whatever the source, the
\* target, the filter and the flags are.
C21_OneColumnKeyNeverDeletes ==
    Len(pkCols) = 1 =>
        /\ DOMAIN targetData \subseteq DOMAIN sourceData
        /\ keysToDelete = << >>
        /\ StmtsOf("delete") = {}

\* The part of C21 about the statements: no DELETE reaches the target.
C21_NoDeleteSent == Len(pkCols) = 1 => StmtsOf("delete") = {}

\* A committed run on a one-column key whose target held a row the source
\* lacks.
C21_StaleRowReached ==
    /\ CommittedRun
    /\ Len(pkCols) = 1
    /\ where = ""
    /\ \E k \in DOMAIN tgtBefore : k \notin DOMAIN srcTable /\ k \in DOMAIN tgtTable

\* C22: when another session changes a source row between the fingerprint
\* read and the materializing read of its key, the row written to the
\* target is the source's content at the materializing read: the read
\* takes the row as the source holds it then, nothing changes what was
\* read before the upsert is sent, the upsert writes what was read, no
\* later statement of the transaction touches that row, and the commit
\* makes it the target's row.
C22_MaterializedContentWritten ==
    [][ /\ (pc = "apply" /\ pc' = "upsert") =>
              LET k == splitKey(UpsertQueue[idx])
              IN  /\ k \in DOMAIN srcTable
                  /\ columns' = << srcTable[k].val >>
        /\ (pc = "upsert" /\ pc' = "upsert") => columns' = columns
        /\ (pc = "upsert" /\ pc' = "apply") =>
              LET k == splitKey(UpsertQueue[idx])
              IN  /\ k \in DOMAIN txTable'
                  /\ txTable'[k].val = columns[1]
        /\ (txState = "open" /\ txState' = "open" /\ txTable' # txTable) =>
              \A k \in UpsertedKeys :
                  k \in DOMAIN txTable' /\ txTable'[k] = txTable[k]
        /\ (txState = "open" /\ txState' = "committed") =>
              \A k \in UpsertedKeys :
                  k \in DOMAIN tgtTable' /\ tgtTable'[k] = txTable[k]
      ]_vars

\* A committed run in which a source row changed after it was
\* fingerprinted and before it was materialized: the target row holds the
\* changed content, not the fingerprinted one.
C22_Witness ==
    /\ CommittedRun
    /\ writes > 0
    /\ \E i \in DoneStmtsOf("upsert") :
          LET key == stmts[i].key
              k == splitKey(key)
          IN  /\ k \in DOMAIN srcTable
              /\ sourceData[key][2] # srcTable[k].val
              /\ tgtTable[k].val = srcTable[k].val

\* The column list has been quoted in place and its elements quoted again.
Requoted == quoteTest.phase = "requoted"

\* C23: quoteIdentifier is idempotent, also on names with embedded double
\* quotes: quoting the elements that joinIdentifiers has already quoted in
\* place gives the same texts, and these still name the catalog's columns.
C23_QuoteIdempotent ==
    Requoted =>
        \A i \in 1..Len(quoteTest.catalog) :
            /\ quoteTest.requoted[i] = quoteTest.cols[i]
            /\ ColumnNamed(quoteTest.requoted[i]) = quoteTest.catalog[i]

\* The same for column names without a double quote, where it holds.
C23_PlainNames ==
    ( /\ Requoted
      /\ \A i \in 1..Len(quoteTest.catalog) : Quote \notin Range(quoteTest.catalog[i]) )
    => \A i \in 1..Len(quoteTest.catalog) :
            /\ quoteTest.requoted[i] = quoteTest.cols[i]
            /\ ColumnNamed(quoteTest.requoted[i]) = quoteTest.catalog[i]

\* Idempotence alone fails on a name with a double quote inside.
C23_IdempotentOnly ==
    Requoted =>
        \A i \in 1..Len(quoteTest.catalog) :
            quoteTest.requoted[i] = quoteTest.cols[i]

\* Plain names have been quoted twice.
C23_PlainNamesReached ==
    /\ Requoted
    /\ quoteTest.catalog = << << "a" >>, << "a", "a" >> >>
    /\ quoteTest.requoted = << << Quote, "a", Quote >>, << Quote, "a", "a", Quote >> >>

====
